---- MODULE Spec2Model ----
(***************************************************************************)
(* Model of frigate-exporter.py: the export pipeline of main()             *)
(*   export_previous_day_recordings -> check_export_status ->              *)
(*   check_and_move_exported_files -> clean_old_exports                    *)
(* together with the Frigate API and the file system it talks to.          *)
(***************************************************************************)
EXTENDS Integers, Sequences, FiniteSets, TLC

----------------------------------------------------------------------------
(* Bounds of the model *)

\* last hour of the clock, counted from 00:00 of the day the run began
MaxClock == 47

\* longest camera list given to main (--cameras / get_cameras)
MaxCams == 2
\* max_wait_time handed to check_export_status, in seconds: polls may begin
\* 0, 30 and 60 seconds after the start
MaxWaitTime == 89

(* Program constants *)

\* time.sleep(30) of the poll loop
PollInterval == 30

\* EXPORT_DAYS_AGO, by default
EXPORT_DAYS_AGO == 1

\* Time one poll iteration itself may take (requests, file system), seconds
PollLatencies == {0}

CameraIds == {"c1", "c2"}

\* SOURCE_PATH of the configuration
SOURCE_PATH == "/source"

\* the target date string and the date of another day
TargetDay == "2024-05-01"
OtherDay == "2024-04-30"

\* File sizes the disk may show
Sizes == {100, 150}

\* The export records the Frigate API may list: id -> record.  video_path is
\* a container path <<directory, base name>>; name is a sequence of tokens.
ExportRecords ==
    [ r1 |-> [id |-> "r1", camera |-> "c1", name |-> <<"c1", TargetDay>>,
              video_path |-> <<"/media/frigate/exports", "a.mp4">>],
      r2 |-> [id |-> "r2", camera |-> "c1", name |-> <<"c1", TargetDay>>,
              video_path |-> <<"/media/frigate/exports", "b.mp4">>],
      r3 |-> [id |-> "r3", camera |-> "c2", name |-> <<"c2", TargetDay>>,
              video_path |-> <<"/media/frigate/exports", "c.mp4">>],
      r4 |-> [id |-> "r4", camera |-> "c2", name |-> <<"c2", OtherDay>>,
              video_path |-> <<"/media/frigate/exports", "d.mp4">>] ]

\* order of the records in the list the API returns
RecordOrder == <<"r1", "r2", "r3", "r4">>

RecordIds == {RecordOrder[i] : i \in 1..Len(RecordOrder)}

\* states of a record in the API's list; r4 is a finished export of another
\* day whose record is still listed
RecordStates(r) ==
    CASE r = "r1" -> {"absent", "in_progress", "done"}
      [] r = "r2" -> {"absent", "in_progress", "done"}
      [] r = "r3" -> {"done"}
      [] r = "r4" -> {"done"}

ExportLists == {x \in [RecordIds -> {"absent", "in_progress", "done"}] :
                  \A r \in RecordIds : x[r] \in RecordStates(r)}

VARIABLES
    pc,            \* position of the control thread
    should_exit,   \* global should_exit
    stages,        \* the stage starts and returns of main so far
    cameras,       \* export_previous_day_recordings: cameras
    window,        \* the arguments given: "ok", or what is wrong with
                   \* --date / --start-hour, --end-hour
    hours,         \* <<args.start_hour, args.end_hour>>, once read
    transition,    \* the change of UTC offset the configured timezone has
                   \* on the target day
    export_window, \* <<start_timestamp, end_timestamp>>, once computed, in
                   \* seconds after 00:00 standard time of the target day
    req_i,         \* index of the camera loop (line 171)
    exported_files, \* export_previous_day_recordings: cameras of exported_files
    export_start_times, \* the keys of the global export_start_times
    requests,      \* the cameras a POST was sent for, in order
    responses,     \* what each POST was answered with
    tracked,       \* exported_camera_names of main, as a set
    pending_cameras, \* check_export_status: pending_cameras
    file_sizes,    \* check_export_status: file_sizes (host path -> last size)
    elapsed,       \* time.time() - start_time
    result,        \* return value of check_export_status: "none", "True", "False"
    exports,       \* platform: state of each export record
    disk,          \* source directory: host path -> size, for the files that exist
    polls,         \* number of poll iterations begun
    readNow,       \* host paths whose size the last iteration read
    readPrev,      \* host paths whose size the iteration before it read
    sameAsPrev,    \* host paths that had the same size at the iteration before
    pollError,     \* the last iteration ended in the except branch
    steady,        \* the iteration before it raised no error and was given
                   \* the same export list
    pendingBefore, \* pending_cameras when the last iteration began
    confirmed,     \* cameras check_export_status removed from pending_cameras
    reloc_targets, \* check_and_move_exported_files: target_exports
    reloc_i,       \* index of the loop over target_exports (line 425)
    moved_files,   \* check_and_move_exported_files: moved_files
    dest,          \* destination directory: file name -> modification time,
                   \* in seconds after the cutoff of the sweep, for the files
                   \* the run has moved there or has listed
    dest_made,     \* os.makedirs(DEST_PATH) has been done (line 402)
    clean_list,    \* clean_old_exports: os.listdir(DEST_PATH)
    clean_i,       \* index of the loop over the listing (line 488)
    cleaned_files, \* clean_old_exports: cleaned_files
    removals,      \* the files os.remove was called for (line 504): file name
                   \* -> its modification time
    first_failed,  \* an os.remove of the first sweep has raised (line 507)
    sweeps,        \* runs of clean_old_exports that have returned before
                   \* the current one
    cutoff,        \* cutoff_date of the current sweep, in seconds after the
                   \* cutoff of the first
    now,           \* datetime.now(CHINA_TZ), in hours after 00:00 of the day
                   \* the run began
    date,          \* args.date ("" when --date is not given)
    target_date,   \* stage -> the target date string it has computed
    config_ini,    \* the file config.ini of the working directory
    args_config,   \* the file at args.config, or that --config is not given
    globals,       \* the module's configuration globals (lines 36-42)
    tz_skew        \* host UTC offset minus configured UTC offset, seconds

requesterVars == <<cameras, window, hours, transition, export_window, req_i,
                   exported_files, export_start_times, requests, responses>>

trackerLocals == <<pending_cameras, file_sizes, elapsed, polls, readNow, readPrev,
                   sameAsPrev, pollError, steady, pendingBefore>>

trackerVars == <<trackerLocals, result, confirmed>>

relocatorVars == <<reloc_targets, reloc_i, moved_files>>

sweeperVars == <<clean_list, clean_i, cleaned_files, tz_skew, removals,
                 first_failed, sweeps, cutoff>>

dateVars == <<now, date, target_date>>

configVars == <<config_ini, args_config, globals>>

vars == <<pc, should_exit, stages, tracked, exports, disk, dest, dest_made, requesterVars,
          trackerVars, relocatorVars, sweeperVars, dateVars, configVars>>

----------------------------------------------------------------------------
(* get_real_file_path *)

basename(video_path) == video_path[Len(video_path)]

join(dir, filename) == <<dir, filename>>

get_real_file_path(video_path) ==
    IF video_path = <<>> THEN <<>>
    ELSE join(SOURCE_PATH, basename(video_path))

\* the files the source directory may hold (d.mp4, of the other day, is gone)
HostPaths == {join(SOURCE_PATH, f) : f \in {"a.mp4", "b.mp4", "c.mp4"}}

\* the states of the source directory: a.mp4 and b.mp4 are being written,
\* c.mp4 is there or not
DiskStates ==
    {d \in UNION {[D -> Sizes] : D \in SUBSET HostPaths} :
        /\ join(SOURCE_PATH, "b.mp4") \in DOMAIN d
        /\ join(SOURCE_PATH, "c.mp4") \in DOMAIN d
        /\ d[join(SOURCE_PATH, "c.mp4")] = 100}

exists(d, path) == path \in DOMAIN d

getsize(d, path) == d[path]

real_path(r) == get_real_file_path(ExportRecords[r].video_path)

----------------------------------------------------------------------------
(* the export list and its filters *)

\* GET /api/exports: the listed records, in the API's order
ListExports(x) == SelectSeq(RecordOrder, LAMBDA r : x[r] # "absent")

\* target_date_str in e.get("name", "")
Contains(name, s) == \E i \in 1..Len(name) : name[i] = s

in_progress(x, r) == x[r] = "in_progress"

camera_exports(x, camera, tds) ==
    SelectSeq(ListExports(x),
              LAMBDA r : ExportRecords[r].camera = camera
                         /\ Contains(ExportRecords[r].name, tds))

in_progress_exports(x, camera, tds) ==
    SelectSeq(camera_exports(x, camera, tds), LAMBDA r : in_progress(x, r))

----------------------------------------------------------------------------
(* check_export_status: one iteration of the poll loop *)

\* d[path] = size, adding the key when it is new
SetItem(d, path, size) ==
    [q \in DOMAIN d \cup {path} |-> IF q = path THEN size ELSE d[q]]

\* del d[path] with the entry left in place
DelItem_KeepsEntry(d, path) == d

\* del d[path]
DelItem(d, path) == [q \in DOMAIN d \ {path} |-> d[q]]

\* lines 317-329: the stability loop over camera_exports, from index i.
\* st carries file_sizes, the paths read, the stable flag and a raised error.
RECURSIVE StabilityLoop(_, _, _, _, _)
StabilityLoop(recs, i, dsk, fail_path, st) ==
    IF i > Len(recs) THEN st
    ELSE LET path == real_path(recs[i]) IN
         IF ~exists(dsk, path)
         THEN StabilityLoop(recs, i + 1, dsk, fail_path, st)
         ELSE IF path = fail_path
         THEN [st EXCEPT !.err = TRUE]
         ELSE LET current_size == getsize(dsk, path)
                  last_size == IF path \in DOMAIN st.file_sizes
                               THEN st.file_sizes[path] ELSE current_size
                  st2 == [st EXCEPT !.file_sizes = SetItem(@, path, current_size),
                                    !.read = @ \cup {path}]
              IN IF current_size # last_size
                 THEN [st2 EXCEPT !.stable = FALSE]
                 ELSE StabilityLoop(recs, i + 1, dsk, fail_path, st2)

\* lines 335-339: purge the ledger entries of the camera's matched records
RECURSIVE PurgeLoop(_, _, _)
PurgeLoop(recs, i, fs) ==
    IF i > Len(recs) THEN fs
    ELSE LET path == real_path(recs[i]) IN
         PurgeLoop(recs, i + 1, IF path \in DOMAIN fs THEN DelItem(fs, path) ELSE fs)

\* lines 347-361: the progress loop over in_progress_exports, from index i
RECURSIVE ProgressLoop(_, _, _, _, _)
ProgressLoop(recs, i, dsk, fail_path, st) ==
    IF i > Len(recs) THEN st
    ELSE LET path == real_path(recs[i]) IN
         IF ~exists(dsk, path)
         THEN ProgressLoop(recs, i + 1, dsk, fail_path, st)
         ELSE IF path = fail_path
         THEN [st EXCEPT !.err = TRUE, !.gfs = TRUE]
         ELSE ProgressLoop(recs, i + 1, dsk, fail_path,
                  [st EXCEPT !.file_sizes = SetItem(@, path, getsize(dsk, path)),
                             !.read = @ \cup {path},
                             !.gfs = TRUE])

\* lines 305-361 with the test of line 314 reduced to "if camera_exports"
CheckCamera_RunningIgnored(camera, x, dsk, tds, fail_path, st) ==
    LET cam_exports == camera_exports(x, camera, tds)
    IN IF Len(cam_exports) # 0
       THEN LET s1 == StabilityLoop(cam_exports, 1, dsk, fail_path,
                                    [st EXCEPT !.stable = TRUE])
            IN IF s1.err THEN s1
               ELSE IF s1.stable
               THEN [s1 EXCEPT !.pending = @ \ {camera},
                               !.file_sizes = PurgeLoop(cam_exports, 1, @)]
               ELSE s1
       ELSE st

\* lines 305-361: the body of the loop over the pending cameras, for one camera
CheckCamera(camera, x, dsk, tds, fail_path, st) ==
    LET cam_exports == camera_exports(x, camera, tds)
        running == in_progress_exports(x, camera, tds)
    IN IF Len(running) = 0 /\ Len(cam_exports) # 0
       THEN LET s1 == StabilityLoop(cam_exports, 1, dsk, fail_path,
                                    [st EXCEPT !.stable = TRUE])
            IN IF s1.err THEN s1
               ELSE IF s1.stable
               THEN [s1 EXCEPT !.pending = @ \ {camera},
                               !.file_sizes = PurgeLoop(cam_exports, 1, @)]
               ELSE s1
       ELSE IF Len(cam_exports) = 0
       THEN st
       ELSE ProgressLoop(running, 1, dsk, fail_path, st)

\* line 305: for camera in list(pending_cameras), in the order the list has
RECURSIVE CheckCameras(_, _, _, _, _, _, _)
CheckCameras(order, i, x, dsk, tds, fail_path, st) ==
    IF i > Len(order) \/ st.err THEN st
    ELSE CheckCameras(order, i + 1, x, dsk, tds, fail_path,
                      CheckCamera(order[i], x, dsk, tds, fail_path, st))

\* the orders list(pending_cameras) may have
Orders(S) == {o \in [1..Cardinality(S) -> S] : \A c \in S : \E i \in DOMAIN o : o[i] = c}

----------------------------------------------------------------------------
(* check_export_status: the poll loop *)

\* line 294: the condition of the while loop
LoopCondition ==
    elapsed < MaxWaitTime /\ pending_cameras # {} /\ ~should_exit

\* What may go wrong inside one iteration:
\*   "ok"        nothing
\*   "get"       the GET fails, is not 2xx or is no JSON (lines 297-299)
\*   "signal"    a signal is delivered inside get_file_size (line 255), whose
\*               bare except swallows the SystemExit of signal_handler
\*   a host path os.path.getsize of that file raises (lines 322, 359)
PollEvents(dsk) == {<<"ok">>, <<"get">>, <<"signal">>} \cup DOMAIN dsk

\* lines 295-361: the state one iteration leaves, with the order
\* list(pending_cameras) has in it
IterationResult_PendingResetInLoop(event, order) ==
    LET all == CHOOSE o \in Orders(tracked) : TRUE
        st0 == [pending |-> tracked, file_sizes |-> file_sizes,
                read |-> {}, err |-> FALSE, gfs |-> FALSE, stable |-> TRUE]
    IN IF event = <<"get">> THEN [st0 EXCEPT !.err = TRUE]
       ELSE CheckCameras(all, 1, exports, disk, TargetDay, event, st0)

IterationResult(event, order) ==
    LET st0 == [pending |-> pending_cameras, file_sizes |-> file_sizes,
                read |-> {}, err |-> FALSE, gfs |-> FALSE, stable |-> TRUE]
    IN IF event = <<"get">> THEN [st0 EXCEPT !.err = TRUE]
       ELSE CheckCameras(order, 1, exports, disk, TargetDay, event, st0)

\* lines 368-378 with an except branch that does not sleep
IterationEnd_ErrorSkipsSleep(st) ==
    IF st.err
    THEN /\ pc' = "poll"
         /\ result' = result
         /\ stages' = stages
    ELSE IF st.pending # {}
    THEN /\ pc' = "sleep"
         /\ result' = result
         /\ stages' = stages
    ELSE /\ pc' = "tracked"
         /\ result' = "True"
         /\ stages' = Append(stages, <<"CompletionTracker", "return">>)

\* lines 368-378: how the iteration ends: in the sleep of line 371, in the
\* sleep of the except branch (line 378), or in the return of line 374
IterationEnd_ErrorAborts(st) ==
    IF st.err
    THEN /\ pc' = "tracked"
         /\ result' = "False"
         /\ stages' = Append(stages, <<"CompletionTracker", "return">>)
    ELSE IF st.pending # {}
    THEN /\ pc' = "sleep"
         /\ result' = result
         /\ stages' = stages
    ELSE /\ pc' = "tracked"
         /\ result' = "True"
         /\ stages' = Append(stages, <<"CompletionTracker", "return">>)

IterationEnd(st) ==
    IF st.err \/ st.pending # {}
    THEN /\ pc' = "sleep"
         /\ result' = result
         /\ stages' = stages
    ELSE /\ pc' = "tracked"
         /\ result' = "True"
         /\ stages' = Append(stages, <<"CompletionTracker", "return">>)

\* lines 295-378 up to the sleep: one iteration of the loop
PollIteration(event, order) ==
    LET st == IterationResult(event, order)
    IN /\ pending_cameras' = st.pending
       /\ file_sizes' = st.file_sizes
       /\ should_exit' = (should_exit \/ (event = <<"signal">> /\ st.gfs))
       /\ readNow' = st.read
       /\ pollError' = st.err
       /\ pendingBefore' = pending_cameras
       /\ confirmed' = confirmed \cup (pending_cameras \ st.pending)
       /\ polls' = polls + 1
       /\ IterationEnd(st)

Poll ==
    /\ pc = "poll"
    /\ LoopCondition
    /\ \E event \in PollEvents(disk), order \in Orders(pending_cameras) :
          PollIteration(event, order)
    /\ UNCHANGED <<elapsed, exports, disk, tracked, dest, dest_made, readPrev, sameAsPrev,
                   steady,
                   requesterVars, relocatorVars, sweeperVars>>
    /\ UNCHANGED <<dateVars, configVars>>

\* lines 371/378: time.sleep(30); meanwhile the platform and the disk move on
Sleep ==
    /\ pc = "sleep"
    /\ \E lat \in PollLatencies : elapsed' = elapsed + lat + PollInterval
    /\ exports' \in ExportLists
    /\ disk' \in DiskStates
    /\ readPrev' = readNow
    /\ sameAsPrev' = {p \in DOMAIN disk \cap DOMAIN disk' : disk'[p] = disk[p]}
    /\ readNow' = {}
    /\ steady' = (~pollError /\ exports' = exports)
    /\ pollError' = FALSE
    /\ pendingBefore' = pending_cameras
    /\ pc' = "poll"
    /\ UNCHANGED <<pending_cameras, file_sizes, should_exit, result, tracked, polls,
                   confirmed, stages, dest, dest_made, requesterVars, relocatorVars, sweeperVars>>
    /\ UNCHANGED <<dateVars, configVars>>

\* line 385: return not bool(pending_cameras)
ReturnValue_NotDropped(pending) == IF pending # {} THEN "True" ELSE "False"

ReturnValue(pending) == IF pending # {} THEN "False" ELSE "True"

\* lines 380-385: the loop has ended without returning True from inside
LoopExit ==
    /\ pc = "poll"
    /\ ~LoopCondition
    /\ result' = ReturnValue(pending_cameras)
    /\ pc' = "tracked"
    /\ stages' = Append(stages, <<"CompletionTracker", "return">>)
    /\ UNCHANGED <<pending_cameras, file_sizes, elapsed, should_exit, exports, disk,
                   tracked, polls, readNow, readPrev, sameAsPrev, pollError,
                   steady, pendingBefore, confirmed, dest, dest_made,
                   requesterVars, relocatorVars, sweeperVars>>
    /\ UNCHANGED <<dateVars, configVars>>

----------------------------------------------------------------------------
(* export_previous_day_recordings *)

CameraLists == UNION {[1..n -> CameraIds] : n \in 0..MaxCams}

\* what requests.post gives: a response with a status code, or an exception
Responses == {[raised |-> FALSE, status_code |-> 200],
              [raised |-> FALSE, status_code |-> 201],
              [raised |-> FALSE, status_code |-> 500],
              [raised |-> TRUE, status_code |-> 0]}

Accepted(response) == ~response.raised /\ response.status_code \in {200, 201}

Range(seq) == {seq[i] : i \in 1..Len(seq)}

\* values --start-hour and --end-hour may be given
Hours == {-1, 0, 2, 23, 24}

\* the hour pairs of each kind of arguments
HourPairs(w) ==
    LET valid == {h \in Hours \X Hours : 0 <= h[1] /\ h[1] <= h[2] /\ h[2] <= 23}
    IN IF w = "bad_hours" THEN (Hours \X Hours) \ valid ELSE valid

\* main, lines 554-556: time_range is None for the default hours
time_range(h) == IF h[1] # 0 \/ h[2] # 23 THEN h ELSE <<>>

\* line 145 without the test of the order of the two hours
HoursValid_OrderUnchecked(start_hour, end_hour) ==
    0 <= start_hour /\ start_hour <= 23 /\ 0 <= end_hour /\ end_hour <= 23

\* line 145
HoursValid(start_hour, end_hour) ==
    /\ 0 <= start_hour /\ start_hour <= 23
    /\ 0 <= end_hour /\ end_hour <= 23
    /\ start_hour <= end_hour

\* The configured timezone on the target day: no change of UTC offset, or
\* daylight saving time beginning (02:00 standard time becomes 03:00) or
\* ending (03:00 daylight time becomes 02:00 standard time).
Transitions == {"none", "forward", "back"}

\* CHINA_TZ.localize(datetime(...)) with its default is_dst=False: the
\* seconds the wall time is ahead of standard time.  A wall time that does
\* not exist (02:xx on "forward") or exists twice (02:xx on "back") is read
\* as standard time.
dst(wall, tr) ==
    CASE tr = "none" -> 0
      [] tr = "forward" -> IF wall < 3 * 3600 THEN 0 ELSE 3600
      [] tr = "back" -> IF wall < 2 * 3600 THEN 3600 ELSE 0

\* lines 153-157: int(CHINA_TZ.localize(datetime(y, m, d, hour, minute,
\* second)).timestamp()), in seconds after 00:00 standard time of the day
\* with the end of the window at the first second of end_hour
timestamp_EndAtHourStart(hour, minute, second, tr) ==
    LET wall == hour * 3600 IN wall - dst(wall, tr)

timestamp(hour, minute, second, tr) ==
    LET wall == hour * 3600 + minute * 60 + second
    IN wall - dst(wall, tr)

\* lines 128-169: the date and the hour range are checked, the window computed
ExportEntry ==
    /\ pc = "export_entry"
    /\ IF window = "bad_date"
       THEN /\ pc' = "exported"
            /\ stages' = stages \o <<<<"ExportRequester", "start">>,
                                     <<"ExportRequester", "return">>>>
            /\ UNCHANGED <<hours, transition, export_window>>
       ELSE \E h \in HourPairs(window), tr \in Transitions :
               LET range == time_range(h)
                   start_hour == IF range # <<>> THEN range[1] ELSE 0
                   end_hour == IF range # <<>> THEN range[2] ELSE 23
               IN /\ hours' = h
                  /\ IF range # <<>> /\ ~HoursValid(start_hour, end_hour)
                     THEN /\ pc' = "exported"
                          /\ stages' = stages \o <<<<"ExportRequester", "start">>,
                                                   <<"ExportRequester", "return">>>>
                          /\ UNCHANGED <<transition, export_window>>
                     ELSE /\ pc' = "export_loop"
                          /\ stages' = Append(stages, <<"ExportRequester", "start">>)
                          /\ transition' = tr
                          /\ export_window' =
                                <<timestamp(start_hour, 0, 0, tr),
                                  timestamp(end_hour, 59, 59, tr)>>
    /\ req_i' = 1
    /\ exported_files' = <<>>
    /\ UNCHANGED <<should_exit, tracked, exports, disk, dest, dest_made, cameras,
                   window, export_start_times, requests, responses, trackerVars,
                   relocatorVars, sweeperVars>>
    /\ UNCHANGED <<dateVars, configVars>>

\* lines 186-199 with a failure ending the loop
PostResult_FailureStopsLoop(camera, response) ==
    IF Accepted(response)
    THEN /\ export_start_times' = export_start_times \cup {camera}
         /\ exported_files' = Append(exported_files, camera)
         /\ req_i' = req_i + 1
    ELSE /\ UNCHANGED <<export_start_times, exported_files>>
         /\ req_i' = Len(cameras) + 1

\* lines 186-199: what the answer to the POST leads to
PostResult(camera, response) ==
    /\ IF Accepted(response)
       THEN /\ export_start_times' = export_start_times \cup {camera}
            /\ exported_files' = Append(exported_files, camera)
       ELSE UNCHANGED <<export_start_times, exported_files>>
    /\ req_i' = req_i + 1

\* lines 171-199: one iteration of the camera loop
ExportCamera ==
    /\ pc = "export_loop"
    /\ req_i <= Len(cameras)
    /\ ~should_exit
    /\ \E response \in Responses :
          LET camera == cameras[req_i] IN
          /\ requests' = Append(requests, camera)
          /\ responses' = Append(responses, response)
          /\ PostResult(camera, response)
    /\ UNCHANGED <<pc, should_exit, stages, tracked, exports, disk, dest, dest_made,
                   cameras, window, hours, transition, export_window,
                   trackerVars, relocatorVars, sweeperVars>>
    /\ UNCHANGED <<dateVars, configVars>>

\* line 201 (after the loop has ended, or line 173 has left it)
ExportReturn ==
    /\ pc = "export_loop"
    /\ (req_i > Len(cameras) \/ should_exit)
    /\ pc' = "exported"
    /\ stages' = Append(stages, <<"ExportRequester", "return">>)
    /\ UNCHANGED <<should_exit, tracked, exports, disk, dest, dest_made,
                   requesterVars, trackerVars, relocatorVars, sweeperVars>>
    /\ UNCHANGED <<dateVars, configVars>>

----------------------------------------------------------------------------
(* main: between the stages *)

\* the locals of export_previous_day_recordings are gone
RequesterGone ==
    /\ cameras' = <<>>
    /\ req_i' = 1
    /\ exported_files' = <<>>
    /\ requests' = <<>>
    /\ responses' = <<>>
    /\ hours' = <<>>
    /\ transition' = "none"
    /\ export_window' = <<>>
    /\ UNCHANGED <<window, export_start_times>>

\* the locals of check_export_status are gone
TrackerGone ==
    /\ pending_cameras' = {}
    /\ file_sizes' = <<>>
    /\ elapsed' = 0
    /\ polls' = 0
    /\ readNow' = {}
    /\ readPrev' = {}
    /\ sameAsPrev' = {}
    /\ pollError' = FALSE
    /\ steady' = FALSE
    /\ pendingBefore' = {}

\* lines 560-568: after step 1, check_export_status is entered (lines 273-292)
\* when a request was accepted.  Its date is the one step 1 has parsed.
\* Meanwhile the platform has taken up the requests and written to the disk.
MainAfterExport ==
    /\ pc = "exported"
    /\ tracked' = Range(exported_files)
    /\ exports' \in ExportLists
    /\ disk' \in DiskStates
    /\ IF should_exit
       THEN /\ pc' = "returned"
            /\ UNCHANGED <<stages, pending_cameras, pendingBefore>>
       ELSE IF exported_files # <<>>
       THEN /\ pc' = "poll"
            /\ stages' = Append(stages, <<"CompletionTracker", "start">>)
            /\ pending_cameras' = Range(exported_files)
            /\ pendingBefore' = Range(exported_files)
       ELSE /\ pc' = "relocate_entry"
            /\ UNCHANGED <<stages, pending_cameras, pendingBefore>>
    /\ RequesterGone
    /\ UNCHANGED <<should_exit, dest, dest_made, file_sizes, elapsed,
                   result, polls, readNow, readPrev, sameAsPrev, pollError,
                   steady, confirmed, relocatorVars, sweeperVars>>
    /\ UNCHANGED <<dateVars, configVars>>

\* lines 570-575 with main giving up when the tracker has returned False
AfterTracker_StopsOnFailure(flag, res) ==
    IF flag \/ res = "False" THEN "returned" ELSE "relocate_entry"

\* lines 570-575: where main goes on after step 2
AfterTracker(flag, res) == IF flag THEN "returned" ELSE "relocate_entry"

\* lines 570-575: after step 2
MainAfterTracker ==
    /\ pc = "tracked"
    /\ pc' = AfterTracker(should_exit, result)
    /\ TrackerGone
    /\ UNCHANGED <<should_exit, stages, tracked, exports, disk, dest, dest_made,
                   result, confirmed, requesterVars, relocatorVars, sweeperVars>>
    /\ UNCHANGED <<dateVars, configVars>>

----------------------------------------------------------------------------
(* check_and_move_exported_files *)

\* lines 418-421
target_exports(x, cams, tds) ==
    SelectSeq(ListExports(x),
              LAMBDA r : ExportRecords[r].camera \in cams
                         /\ ~in_progress(x, r)
                         /\ Contains(ExportRecords[r].name, tds))

\* lines 395-423: the list is fetched again and filtered; a failed GET or
\* makedirs ends the function in its outer except (line 470), a date that
\* does not parse in the return of line 412
RelocateEntry ==
    /\ pc = "relocate_entry"
    /\ \E reply \in {"ok", "get", "makedirs"} :
          IF reply = "ok" /\ window # "bad_date"
          THEN /\ pc' = "move_loop"
               /\ dest_made' = TRUE
               /\ reloc_targets' = target_exports(exports, tracked, TargetDay)
               /\ stages' = Append(stages, <<"FileRelocator", "start">>)
          ELSE /\ pc' = "relocated"
               /\ dest_made' = (dest_made \/ reply = "ok")
               /\ UNCHANGED reloc_targets
               /\ stages' = stages \o <<<<"FileRelocator", "start">>,
                                        <<"FileRelocator", "return">>>>
    /\ reloc_i' = 1
    /\ moved_files' = 0
    /\ UNCHANGED <<should_exit, tracked, exports, disk, dest, requesterVars,
                   trackerVars, sweeperVars>>
    /\ UNCHANGED <<dateVars, configVars>>

\* the modification time of a file moved now, in seconds after the cutoff
MovedMtime == 24 * 3600

\* what DELETE /api/export/{id} gives
DeleteReplies == {"200", "204", "500", "raised"}

\* line 453 with a failed move counted too
MovedCount_CountsFailedMove(count, move) == count + 1

\* lines 451-453: moved_files += 1 is reached when shutil.move has not raised
MovedCount(count, move) == IF move THEN count + 1 ELSE count

\* lines 425-466: one iteration of the loop over target_exports
\*   sig     a signal is delivered inside get_file_size (line 439 -> 255)
\*   move    shutil.move succeeds
\*   del     the answer to the DELETE of the remote record
MoveFile ==
    /\ pc = "move_loop"
    /\ reloc_i <= Len(reloc_targets)
    /\ ~should_exit
    /\ LET export == reloc_targets[reloc_i]
           video_path == ExportRecords[export].video_path
           path == get_real_file_path(video_path)
       IN IF video_path = <<>> \/ ~exists(disk, path)
          THEN UNCHANGED <<should_exit, disk, dest, moved_files, exports>>
          ELSE \E sig \in BOOLEAN, move \in BOOLEAN, del \in DeleteReplies :
                  /\ should_exit' = sig
                  /\ moved_files' = MovedCount(moved_files, move)
                  /\ IF move
                     THEN /\ disk' = DelItem(disk, path)
                          /\ dest' = SetItem(dest, basename(path), MovedMtime)
                          /\ exports' = IF del \in {"200", "204"}
                                        THEN [exports EXCEPT ![export] = "absent"]
                                        ELSE exports
                     ELSE UNCHANGED <<disk, dest, exports>>
    /\ reloc_i' = reloc_i + 1
    /\ UNCHANGED <<pc, stages, tracked, dest_made, reloc_targets, requesterVars,
                   trackerVars, sweeperVars>>
    /\ UNCHANGED <<dateVars, configVars>>

\* line 468 (after the loop has ended, or line 427 has left it)
RelocateReturn ==
    /\ pc = "move_loop"
    /\ (reloc_i > Len(reloc_targets) \/ should_exit)
    /\ pc' = "relocated"
    /\ stages' = Append(stages, <<"FileRelocator", "return">>)
    /\ UNCHANGED <<should_exit, tracked, exports, disk, dest, dest_made,
                   requesterVars, trackerVars, relocatorVars, sweeperVars>>
    /\ UNCHANGED <<dateVars, configVars>>

\* lines 577-582: after step 3
MainAfterRelocate ==
    /\ pc = "relocated"
    /\ pc' = IF should_exit THEN "returned" ELSE "clean_entry"
    /\ reloc_targets' = <<>>
    /\ reloc_i' = 1
    /\ tracked' = {}
    /\ confirmed' = {}
    /\ UNCHANGED <<should_exit, stages, exports, disk, dest, dest_made, result,
                   moved_files, requesterVars, trackerLocals, sweeperVars>>
    /\ UNCHANGED <<dateVars, configVars>>

----------------------------------------------------------------------------
(* clean_old_exports *)

\* what the destination directory may hold besides the files moved by this
\* run: an older export, modified one second before, at, or after the cutoff
OldDirStates == UNION {[D -> {-1, 0, 1}] : D \in SUBSET {"old.mp4"}}

\* host UTC offset minus the UTC offset of the configured timezone, seconds
TzSkews == {-3600, 0, 3600}

\* os.listdir(DEST_PATH), in one of its orders
ListDir(d) == SelectSeq(<<"a.mp4", "b.mp4", "c.mp4", "old.mp4">>,
                        LAMBDA f : f \in DOMAIN d)

\* lines 495-500: datetime.fromtimestamp(mtime) is the host's local wall time;
\* CHINA_TZ.localize reads it as a wall time of the configured timezone
file_modified(mtime, skew) == mtime + skew

\* seconds the clock may have gone on between two sweeps in succession
CutoffShifts == {0, 1}

\* line 502: file_modified < cutoff_date
Expired(modified, cut) == modified < cut

\* lines 477-488: the cutoff is computed and the directory listed.  A sweep
\* that follows another finds the directory as that one left it, on the same
\* host.
CleanEntry ==
    /\ pc = "clean_entry"
    /\ \E shift \in (IF sweeps = 0 THEN {0} ELSE CutoffShifts) :
          cutoff' = cutoff + shift
    /\ \E dir_exists \in (IF dest_made THEN {TRUE} ELSE BOOLEAN) :
          IF ~dir_exists
          THEN /\ pc' = "done"
               /\ stages' = stages \o <<<<"RetentionSweeper", "start">>,
                                        <<"RetentionSweeper", "return">>>>
               /\ UNCHANGED <<dest, clean_list, tz_skew>>
          ELSE \E old \in (IF sweeps = 0 THEN OldDirStates ELSE {<<>>}),
                  skew \in (IF sweeps = 0 THEN TzSkews ELSE {tz_skew}) :
                  /\ pc' = "clean_loop"
                  /\ stages' = Append(stages, <<"RetentionSweeper", "start">>)
                  /\ dest' = [f \in DOMAIN dest \cup DOMAIN old |->
                                 IF f \in DOMAIN dest THEN dest[f] ELSE old[f]]
                  /\ clean_list' = ListDir(dest')
                  /\ tz_skew' = skew
    /\ clean_i' = 1
    /\ cleaned_files' = 0
    /\ UNCHANGED <<should_exit, tracked, exports, disk, dest_made, removals,
                   first_failed, sweeps, requesterVars, trackerVars,
                   relocatorVars>>
    /\ UNCHANGED <<dateVars, configVars>>

\* lines 488-508: one iteration of the loop over the listing; the cutoff of
\* the first sweep is second 0 of the scale dest is on
CleanFile ==
    /\ pc = "clean_loop"
    /\ clean_i <= Len(clean_list)
    /\ ~should_exit
    /\ LET filename == clean_list[clean_i] IN
       IF Expired(file_modified(dest[filename], tz_skew), cutoff)
       THEN \E removed \in BOOLEAN :
               /\ removals' = SetItem(removals, filename, dest[filename])
               /\ first_failed' = (first_failed \/ (sweeps = 0 /\ ~removed))
               /\ IF removed
                  THEN /\ dest' = DelItem(dest, filename)
                       /\ cleaned_files' = cleaned_files + 1
                  ELSE UNCHANGED <<dest, cleaned_files>>
       ELSE UNCHANGED <<dest, cleaned_files, removals, first_failed>>
    /\ clean_i' = clean_i + 1
    /\ UNCHANGED <<pc, should_exit, stages, tracked, exports, disk, dest_made,
                   clean_list, tz_skew, sweeps, cutoff, requesterVars,
                   trackerVars, relocatorVars>>
    /\ UNCHANGED <<dateVars, configVars>>

\* line 510 and main's line 584
CleanReturn ==
    /\ pc = "clean_loop"
    /\ (clean_i > Len(clean_list) \/ should_exit)
    /\ pc' = "done"
    /\ stages' = Append(stages, <<"RetentionSweeper", "return">>)
    /\ UNCHANGED <<should_exit, tracked, exports, disk, dest, dest_made,
                   requesterVars, trackerVars, relocatorVars, sweeperVars>>
    /\ UNCHANGED <<dateVars, configVars>>

----------------------------------------------------------------------------
(* signal_handler *)

\* lines 92-97: a signal arrives anywhere but inside get_file_size; the
\* SystemExit of sys.exit(0) passes every "except Exception" and ends the
\* process.  What has been done stays done.
Signal ==
    /\ pc \notin {"done", "returned", "exited"}
    /\ should_exit' = TRUE
    /\ pc' = "exited"
    /\ RequesterGone
    /\ TrackerGone
    /\ reloc_targets' = <<>>
    /\ reloc_i' = 1
    /\ clean_list' = <<>>
    /\ clean_i' = 1
    /\ tracked' = {}
    /\ confirmed' = {}
    /\ removals' = <<>>
    /\ first_failed' = FALSE
    /\ UNCHANGED <<stages, exports, disk, dest, dest_made, result, moved_files,
                   cleaned_files, tz_skew, sweeps, cutoff>>
    /\ UNCHANGED <<dateVars, configVars>>

----------------------------------------------------------------------------
(* load_config and the configuration check of main *)

\* an option the section [frigate] does not have
Absent == "(absent)"

\* DEST_PATH and api_url of a complete configuration
DEST_PATH == "/dest"
API_URL == "http://frigate:5000/api"

\* what a configuration file may give each option of [frigate]
OptionSets ==
    [api_url : {Absent, "", API_URL},
     source_path : {Absent, SOURCE_PATH},
     dest_path : {Absent, DEST_PATH},
     export_retention_days : {Absent, "abc", "0", "30"},
     export_days_ago : {Absent, "x", "2"},
     timezone : {Absent, "Mars/Phobos"}]

NoOptions ==
    [api_url |-> Absent, source_path |-> Absent, dest_path |-> Absent,
     export_retention_days |-> Absent, export_days_ago |-> Absent,
     timezone |-> Absent]

\* a path that is not a file with a section [frigate]: no file there, a file
\* open() raises OSError for, a file the parser raises an error for, a file
\* without the section
OtherFile(kind) == [kind |-> kind, opts |-> NoOptions]

\* the states of the file at a path
ConfigFiles ==
    {OtherFile(k) : k \in {"missing", "unreadable", "malformed", "no_section"}}
        \cup {[kind |-> "file", opts |-> o] : o \in OptionSets}

\* --config is not given: args.config is None
NotGiven == OtherFile("not_given")

\* a file with every option the program needs and no other
CompleteFile ==
    [kind |-> "file",
     opts |-> [NoOptions EXCEPT !.api_url = API_URL, !.source_path = SOURCE_PATH,
                                !.dest_path = DEST_PATH,
                                !.export_retention_days = "30"]]

\* the states of config.ini looked at in a run that is given --config
IniFiles ==
    {OtherFile("missing"), OtherFile("unreadable"), CompleteFile,
     [CompleteFile EXCEPT !.opts.export_retention_days = "0"],
     [CompleteFile EXCEPT !.opts.dest_path = Absent]}

\* int(s) does not raise ValueError
IsInt(s) == s \in {"0", "2", "30"}

\* int(s)
int(s) == CASE s = "0" -> 0 [] s = "2" -> 2 [] s = "30" -> 30

\* pytz.timezone(name) does not raise UnknownTimeZoneError
KnownTimeZone(name) == name \in {"Asia/Shanghai", "UTC"}

\* the globals as the module sets them at lines 36-42
DefaultGlobals ==
    [FRIGATE_API_URL |-> "", SOURCE_PATH |-> "", DEST_PATH |-> "",
     EXPORT_RETENTION_DAYS |-> 30, EXPORT_DAYS_AGO |-> 1,
     TIMEZONE |-> "Asia/Shanghai", CHINA_TZ |-> "Asia/Shanghai"]

\* how load_config ends: it returns, calls sys.exit(1), or an exception of
\* config.read leaves it
Returned(g) == [end |-> "returned", globals |-> g]
Exit1(g) == [end |-> "exit_1", globals |-> g]
Raised(g) == [end |-> "raised", globals |-> g]

\* lines 62-81: the try block, the globals assigned one after the other
\* until an option raises
ReadOptions(opts, g) ==
    LET g1 == [g EXCEPT !.FRIGATE_API_URL = opts.api_url]
        g2 == [g1 EXCEPT !.SOURCE_PATH = opts.source_path]
        g3 == [g2 EXCEPT !.DEST_PATH = opts.dest_path]
        g4 == [g3 EXCEPT !.EXPORT_RETENTION_DAYS = int(opts.export_retention_days)]
        g5 == [g4 EXCEPT !.EXPORT_DAYS_AGO =
                   IF opts.export_days_ago = Absent THEN 1
                   ELSE int(opts.export_days_ago)]
        g6 == [g5 EXCEPT !.TIMEZONE =
                   IF opts.timezone = Absent THEN "Asia/Shanghai"
                   ELSE opts.timezone]
        g7 == [g6 EXCEPT !.CHINA_TZ =
                   IF KnownTimeZone(g6.TIMEZONE) THEN g6.TIMEZONE ELSE "UTC"]
    IN  IF opts.api_url = Absent THEN Exit1(g)
        ELSE IF opts.source_path = Absent THEN Exit1(g1)
        ELSE IF opts.dest_path = Absent THEN Exit1(g2)
        ELSE IF opts.export_retention_days = Absent
                    \/ ~IsInt(opts.export_retention_days) THEN Exit1(g3)
        ELSE IF opts.export_days_ago # Absent /\ ~IsInt(opts.export_days_ago)
             THEN Exit1(g4)
        ELSE Returned(g7)

\* lines 44-81
load_config(config_file, g) ==
    IF config_file.kind \in {"missing", "unreadable"} THEN Exit1(g)
    ELSE IF config_file.kind = "malformed" THEN Raised(g)
    ELSE IF config_file.kind = "no_section" THEN Exit1(g)
    ELSE ReadOptions(config_file.opts, g)

\* line 534: all([FRIGATE_API_URL, SOURCE_PATH, DEST_PATH, EXPORT_RETENTION_DAYS])
Complete(g) ==
    g.FRIGATE_API_URL # "" /\ g.SOURCE_PATH # "" /\ g.DEST_PATH # ""
        /\ g.EXPORT_RETENTION_DAYS # 0

\* the variables the start of the process does not touch
ConfigUnchanged ==
    UNCHANGED <<should_exit, stages, tracked, exports, disk, dest, dest_made,
                window, hours, transition, export_window, req_i, exported_files,
                export_start_times, requests, responses,
                trackerVars, relocatorVars, sweeperVars, dateVars,
                config_ini, args_config>>

\* line 84: the module loads config.ini when it is imported, before main
\* looks at the arguments
LoadAtImport ==
    /\ pc = "import"
    /\ LET r == load_config(config_ini, globals)
       IN  /\ globals' = r.globals
           /\ pc' = IF r.end = "returned" THEN "main" ELSE r.end
    /\ UNCHANGED cameras
    /\ ConfigUnchanged

\* lines 521-531: main parses the arguments and loads the file of --config
\* if there is one
LoadArgsConfig ==
    /\ pc = "main"
    /\ IF args_config.kind # "not_given"
       THEN LET r == load_config(args_config, globals)
            IN  /\ globals' = r.globals
                /\ pc' = IF r.end = "returned" THEN "check_config" ELSE r.end
       ELSE /\ globals' = globals
            /\ pc' = "check_config"
    /\ UNCHANGED cameras
    /\ ConfigUnchanged

\* lines 533-536
CheckConfig ==
    /\ pc = "check_config"
    /\ pc' = IF Complete(globals) THEN "get_cameras" ELSE "exit_1"
    /\ UNCHANGED <<cameras, globals>>
    /\ ConfigUnchanged

\* lines 538-556: the first request of the run (GET /config of get_cameras,
\* unless --cameras is given); main then calls
\* export_previous_day_recordings
GetCameraList ==
    /\ pc = "get_cameras"
    /\ cameras' \in CameraLists
    /\ pc' = "export_entry"
    /\ UNCHANGED globals
    /\ ConfigUnchanged

----------------------------------------------------------------------------
(* the program *)

\* the export list before any request of this run: nothing of the target day
\* for the first camera yet
NoExportsYet ==
    [r \in RecordIds |-> IF "absent" \in RecordStates(r) THEN "absent" ELSE "done"]

\* the source directory before any request of this run
DiskAtStart ==
    [p \in {join(SOURCE_PATH, "b.mp4"), join(SOURCE_PATH, "c.mp4")} |-> 100]

\* main has parsed its arguments and loaded the configuration (lines 516-556)
Init ==
    /\ pc = "export_entry"
    /\ should_exit = FALSE
    /\ stages = <<>>
    /\ cameras \in CameraLists
    /\ window \in {"ok", "bad_date", "bad_hours"}
    /\ hours = <<>>
    /\ transition = "none"
    /\ export_window = <<>>
    /\ req_i = 1
    /\ exported_files = <<>>
    /\ export_start_times = {}
    /\ requests = <<>>
    /\ responses = <<>>
    /\ tracked = {}
    /\ pending_cameras = {}
    /\ file_sizes = <<>>
    /\ elapsed = 0
    /\ result = "none"
    /\ exports = NoExportsYet
    /\ disk = DiskAtStart
    /\ polls = 0
    /\ readNow = {}
    /\ readPrev = {}
    /\ sameAsPrev = {}
    /\ pollError = FALSE
    /\ steady = FALSE
    /\ pendingBefore = {}
    /\ confirmed = {}
    /\ reloc_targets = <<>>
    /\ reloc_i = 1
    /\ moved_files = 0
    /\ dest = <<>>
    /\ dest_made = FALSE
    /\ clean_list = <<>>
    /\ clean_i = 1
    /\ cleaned_files = 0
    /\ tz_skew = 0
    /\ removals = <<>>
    /\ first_failed = FALSE
    /\ sweeps = 0
    /\ cutoff = 0
    /\ now = 0
    /\ date = ""
    /\ target_date = <<>>
    /\ config_ini = CompleteFile
    /\ args_config = NotGiven
    /\ globals = load_config(CompleteFile, DefaultGlobals).globals

Next ==
    \/ ExportEntry
    \/ ExportCamera
    \/ ExportReturn
    \/ MainAfterExport
    \/ Poll
    \/ Sleep
    \/ LoopExit
    \/ MainAfterTracker
    \/ RelocateEntry
    \/ MoveFile
    \/ RelocateReturn
    \/ MainAfterRelocate
    \/ CleanEntry
    \/ CleanFile
    \/ CleanReturn
    \/ Signal

Spec == Init /\ [][Next]_vars

----------------------------------------------------------------------------
(* clean_old_exports run twice in succession *)

\* what the destination directory may hold when the first sweep begins
SweepDirStates == UNION {[D -> {-1, 0, 1}] : D \in SUBSET {"a.mp4", "b.mp4"}}

\* the process is about to call clean_old_exports (line 582)
InitSweep ==
    /\ pc = "clean_entry"
    /\ should_exit = FALSE
    /\ stages = <<>>
    /\ cameras = <<>>
    /\ window = "ok"
    /\ hours = <<>>
    /\ transition = "none"
    /\ export_window = <<>>
    /\ req_i = 1
    /\ exported_files = <<>>
    /\ export_start_times = {}
    /\ requests = <<>>
    /\ responses = <<>>
    /\ tracked = {}
    /\ pending_cameras = {}
    /\ file_sizes = <<>>
    /\ elapsed = 0
    /\ result = "none"
    /\ exports = [r \in RecordIds |-> "done"]
    /\ disk = CHOOSE d \in DiskStates : TRUE
    /\ polls = 0
    /\ readNow = {}
    /\ readPrev = {}
    /\ sameAsPrev = {}
    /\ pollError = FALSE
    /\ steady = FALSE
    /\ pendingBefore = {}
    /\ confirmed = {}
    /\ reloc_targets = <<>>
    /\ reloc_i = 1
    /\ moved_files = 0
    /\ dest \in SweepDirStates
    /\ dest_made \in (IF dest = <<>> THEN BOOLEAN ELSE {TRUE})
    /\ clean_list = <<>>
    /\ clean_i = 1
    /\ cleaned_files = 0
    /\ tz_skew = 0
    /\ removals = <<>>
    /\ first_failed = FALSE
    /\ sweeps = 0
    /\ cutoff = 0
    /\ now = 0
    /\ date = ""
    /\ target_date = <<>>
    /\ config_ini = CompleteFile
    /\ args_config = NotGiven
    /\ globals = load_config(CompleteFile, DefaultGlobals).globals

\* the first sweep has returned and clean_old_exports is called again
SweepAgain ==
    /\ pc = "done"
    /\ sweeps = 0
    /\ pc' = "clean_entry"
    /\ sweeps' = 1
    /\ UNCHANGED <<should_exit, stages, tracked, exports, disk, dest, dest_made,
                   clean_list, clean_i, cleaned_files, tz_skew, removals,
                   first_failed, cutoff, requesterVars, trackerVars,
                   relocatorVars>>
    /\ UNCHANGED <<dateVars, configVars>>

NextSweep ==
    \/ CleanEntry
    \/ CleanFile
    \/ CleanReturn
    \/ SweepAgain

SpecSweep == InitSweep /\ [][NextSweep]_vars

----------------------------------------------------------------------------
(* the target date of the stages *)

\* the calendar days from the default target day of a run on, as
\* strftime('%Y-%m-%d') writes them
DayNames == <<TargetDay, "2024-05-02", "2024-05-03", "2024-05-04">>

\* what --date may be: not given, the target day with and without leading
\* zeros, a date that does not exist
Dates == {"", TargetDay, "2024-5-1", "2024-13-40"}

\* datetime.strptime(date, '%Y-%m-%d') does not raise ValueError
Parses(d) == d \in {TargetDay, "2024-5-1"}

\* datetime.strptime(date, '%Y-%m-%d').strftime('%Y-%m-%d')
Reformat(d) == IF d = "2024-5-1" THEN TargetDay ELSE d

\* (datetime.now(CHINA_TZ) - timedelta(days=EXPORT_DAYS_AGO)).strftime('%Y-%m-%d')
DefaultDate(clock) == DayNames[(clock \div 24) - EXPORT_DAYS_AGO + 2]

\* lines 131-140, 277-286, 406-415: the target date a stage entered at the
\* hour clock computes; "" when the date does not parse and the stage returns
StageDate(d, clock) ==
    IF d # "" THEN (IF Parses(d) THEN Reformat(d) ELSE "")
    ELSE DefaultDate(clock)

\* the stage has computed its date
Dated(stage, str) ==
    target_date' = IF str = "" THEN target_date ELSE SetItem(target_date, stage, str)

\* the variables the date computations do not touch
DatesUnchanged ==
    UNCHANGED <<should_exit, stages, tracked, exports, disk, dest, dest_made,
                requesterVars, trackerVars, relocatorVars, sweeperVars, date,
                configVars>>

\* lines 128-157: export_previous_day_recordings computes target_date and
\* the window; main then calls check_export_status if a request was accepted
RequesterDate ==
    /\ pc = "date_requester"
    /\ Dated("ExportRequester", StageDate(date, now))
    /\ pc' \in (IF StageDate(date, now) = "" THEN {"date_relocator"}
                ELSE {"date_tracker", "date_relocator"})
    /\ now' = now
    /\ DatesUnchanged

\* lines 276-286: check_export_status computes target_date_str
TrackerDate ==
    /\ pc = "date_tracker"
    /\ Dated("CompletionTracker", StageDate(date, now))
    /\ pc' = "date_relocator"
    /\ now' = now
    /\ DatesUnchanged

\* lines 405-415: check_and_move_exported_files computes target_date_str
RelocatorDate ==
    /\ pc = "date_relocator"
    /\ Dated("FileRelocator", StageDate(date, now))
    /\ pc' = "date_done"
    /\ now' = now
    /\ DatesUnchanged

\* an hour passes while a stage sends its requests or the tracker waits
Tick ==
    /\ pc \in {"date_tracker", "date_relocator"}
    /\ now < MaxClock
    /\ now' = now + 1
    /\ UNCHANGED <<pc, target_date>>
    /\ DatesUnchanged

\* main is about to call export_previous_day_recordings (line 559) at some
\* hour of the day
InitDates ==
    /\ pc = "date_requester"
    /\ now \in 0..23
    /\ date \in Dates
    /\ target_date = <<>>
    /\ config_ini = CompleteFile
    /\ args_config = NotGiven
    /\ globals = load_config(CompleteFile, DefaultGlobals).globals
    /\ should_exit = FALSE
    /\ stages = <<>>
    /\ cameras = <<>>
    /\ window = "ok"
    /\ hours = <<>>
    /\ transition = "none"
    /\ export_window = <<>>
    /\ req_i = 1
    /\ exported_files = <<>>
    /\ export_start_times = {}
    /\ requests = <<>>
    /\ responses = <<>>
    /\ tracked = {}
    /\ pending_cameras = {}
    /\ file_sizes = <<>>
    /\ elapsed = 0
    /\ result = "none"
    /\ exports = NoExportsYet
    /\ disk = DiskAtStart
    /\ polls = 0
    /\ readNow = {}
    /\ readPrev = {}
    /\ sameAsPrev = {}
    /\ pollError = FALSE
    /\ steady = FALSE
    /\ pendingBefore = {}
    /\ confirmed = {}
    /\ reloc_targets = <<>>
    /\ reloc_i = 1
    /\ moved_files = 0
    /\ dest = <<>>
    /\ dest_made = FALSE
    /\ clean_list = <<>>
    /\ clean_i = 1
    /\ cleaned_files = 0
    /\ tz_skew = 0
    /\ removals = <<>>
    /\ first_failed = FALSE
    /\ sweeps = 0
    /\ cutoff = 0

NextDates ==
    \/ RequesterDate
    \/ TrackerDate
    \/ RelocatorDate
    \/ Tick

SpecDates == InitDates /\ [][NextDates]_vars

----------------------------------------------------------------------------
(* the start of the process *)

\* the interpreter is about to run line 84; --config is not given, or it
\* names a file and config.ini is in one of the states of IniFiles
InitConfig ==
    /\ pc = "import"
    /\ \/ args_config = NotGiven /\ config_ini \in ConfigFiles
       \/ args_config \in ConfigFiles /\ config_ini \in IniFiles
    /\ globals = DefaultGlobals
    /\ should_exit = FALSE
    /\ stages = <<>>
    /\ cameras = <<>>
    /\ window = "ok"
    /\ hours = <<>>
    /\ transition = "none"
    /\ export_window = <<>>
    /\ req_i = 1
    /\ exported_files = <<>>
    /\ export_start_times = {}
    /\ requests = <<>>
    /\ responses = <<>>
    /\ tracked = {}
    /\ pending_cameras = {}
    /\ file_sizes = <<>>
    /\ elapsed = 0
    /\ result = "none"
    /\ exports = NoExportsYet
    /\ disk = DiskAtStart
    /\ polls = 0
    /\ readNow = {}
    /\ readPrev = {}
    /\ sameAsPrev = {}
    /\ pollError = FALSE
    /\ steady = FALSE
    /\ pendingBefore = {}
    /\ confirmed = {}
    /\ reloc_targets = <<>>
    /\ reloc_i = 1
    /\ moved_files = 0
    /\ dest = <<>>
    /\ dest_made = FALSE
    /\ clean_list = <<>>
    /\ clean_i = 1
    /\ cleaned_files = 0
    /\ tz_skew = 0
    /\ removals = <<>>
    /\ first_failed = FALSE
    /\ sweeps = 0
    /\ cutoff = 0
    /\ now = 0
    /\ date = ""
    /\ target_date = <<>>

NextConfig ==
    \/ LoadAtImport
    \/ LoadArgsConfig
    \/ CheckConfig
    \/ GetCameraList

SpecConfig == InitConfig /\ [][NextConfig]_vars

----------------------------------------------------------------------------
(* Properties of check_export_status *)

\* the cameras the last poll iteration removed from pending_cameras
JustConfirmed == pendingBefore \ pending_cameras

\* the records of the list that match the camera and the target date
Matched(camera) == Range(camera_exports(exports, camera, TargetDay))

\* C1: a camera is never removed from the pending set in a poll in which one
\* of its matched records has a host file that does not exist on disk.
C1_NeverConfirmedWithMissingFile ==
    \A c \in JustConfirmed : \A r \in Matched(c) : exists(disk, real_path(r))

\* C2: a camera is removed from the pending set only in a poll where every
\* file size read for its matched records equals the size read for the same
\* file in the immediately preceding poll (so never at the first observation
\* of a file).
C2_ConfirmedOnlyAfterTwoEqualReadings ==
    \A c \in JustConfirmed : \A r \in Matched(c) :
        exists(disk, real_path(r)) =>
            real_path(r) \in readPrev /\ real_path(r) \in sameAsPrev

\* C3: in a poll, a pending camera with a matched record in progress, or
\* with no matched record at all, stays pending.
C3_InProgressOrUnmatchedStaysPending ==
    \A c \in pendingBefore :
        (Matched(c) = {} \/ \E r \in Matched(c) : in_progress(exports, r))
            => c \in pending_cameras

\* C3 witness: a poll has confirmed one camera and left pending another that
\* has a finished and a running record
C3_Witness ==
    /\ pc = "sleep"
    /\ ~pollError
    /\ JustConfirmed # {}
    /\ \E c \in pending_cameras :
          /\ \E r \in Matched(c) : in_progress(exports, r)
          /\ \E r \in Matched(c) : ~in_progress(exports, r)

\* C4: a pending camera whose matched records are all finished, with every
\* file on disk and of the size it had at the immediately preceding poll, is
\* confirmed by that poll.  Stated for two polls that raised no error and
\* were given the same export list (pc = "sleep": the poll has ended with a
\* camera still pending).
C4_StableFilesAreConfirmedAtOnce ==
    (pc = "sleep" /\ ~pollError /\ steady) =>
        \A c \in pendingBefore :
            ( /\ Matched(c) # {}
              /\ \A r \in Matched(c) :
                    /\ ~in_progress(exports, r)
                    /\ exists(disk, real_path(r))
                    /\ real_path(r) \in sameAsPrev )
            => c \notin pending_cameras

\* C5: check_export_status returns True iff the pending set is empty when
\* it returns; when it returns False the cameras it reports (those still
\* pending) are the cameras handed in that were never confirmed; and no poll
\* iteration begins once the elapsed time has reached max_wait_time.
C5_ReturnValueAndDeadline ==
    /\ [](pc = "tracked" =>
            /\ result \in {"True", "False"}
            /\ (result = "True" <=> pending_cameras = {})
            /\ pending_cameras = tracked \ confirmed)
    /\ [][polls' = polls + 1 => elapsed < MaxWaitTime]_vars

\* C5 witness: the deadline has passed with one camera confirmed and another
\* still pending, and False is returned
C5_Witness ==
    /\ pc = "tracked"
    /\ result = "False"
    /\ ~should_exit
    /\ elapsed >= MaxWaitTime
    /\ confirmed # {}
    /\ pending_cameras # {}

\* C6 as claimed: an iteration that ends in the except branch leaves the
\* pending set as it was before the iteration.
C6_ErrorLeavesPendingSetUnchanged ==
    pollError => pending_cameras = pendingBefore

\* C6 as amended: an iteration that ends in the except branch does not end
\* the tracker (it goes on to the sleep, nothing is returned) and removes no
\* camera but those confirmed before the error was raised: the pending set
\* after it is a subset of the one before, and every camera it removed is a
\* confirmed one.
C6_ErrorKeepsTrackerRunning ==
    pollError =>
        /\ pc = "sleep"
        /\ result = "none"
        /\ pending_cameras \subseteq pendingBefore
        /\ JustConfirmed \subseteq confirmed

\* C6 witness: an iteration has raised after confirming a camera
C6_Witness ==
    /\ pollError
    /\ pc = "sleep"
    /\ JustConfirmed # {}
    /\ pending_cameras # {}

\* C7: the pending set is a subset of the cameras handed in, and a camera
\* that has been removed from it is never in it again.
C7_PendingOnlyShrinks ==
    /\ pending_cameras \subseteq tracked
    /\ pending_cameras \subseteq pendingBefore
    /\ pending_cameras \cap confirmed = {}

\* C7 witness: after a later poll a camera is still pending while a
\* confirmed one has a record in progress again
C7_Witness ==
    /\ pc = "sleep"
    /\ polls >= 2
    /\ pending_cameras # {}
    /\ \E c \in confirmed : \E r \in Matched(c) : in_progress(exports, r)

\* the host files of the records of a camera
FilesOf(camera) == {real_path(r) : r \in {x \in RecordIds : ExportRecords[x].camera = camera}}

\* C8: once a camera is confirmed the ledger holds no entry for any of its
\* files, and the ledger is empty whenever check_export_status returns True.
C8_LedgerPurgedOnConfirmation ==
    /\ \A c \in confirmed : DOMAIN file_sizes \cap FilesOf(c) = {}
    /\ (pc = "tracked" /\ result = "True") => DOMAIN file_sizes = {}

----------------------------------------------------------------------------
(* Properties of export_previous_day_recordings *)

\* the cameras among the first n whose request was accepted, in order
RECURSIVE AcceptedOf(_, _, _)
AcceptedOf(cams, resps, n) ==
    IF n = 0 THEN <<>>
    ELSE IF Accepted(resps[n])
    THEN Append(AcceptedOf(cams, resps, n - 1), cams[n])
    ELSE AcceptedOf(cams, resps, n - 1)

\* C9: with a valid date and hour range, one request is sent per camera of
\* the list, in order, whatever the earlier answers were; the list returned
\* holds the cameras answered with 200 or 201, in order, and a start time is
\* recorded for exactly those.
C9_OneRequestPerCamera ==
    (pc = "exported" /\ window = "ok") =>
        /\ requests = cameras
        /\ Len(responses) = Len(cameras)
        /\ exported_files = AcceptedOf(cameras, responses, Len(cameras))
        /\ export_start_times = Range(exported_files)

\* C9 witness: the first request raised, the next was answered with 201 and
\* only its camera is returned
C9_Witness ==
    /\ pc = "exported"
    /\ window = "ok"
    /\ Len(cameras) = 2
    /\ Len(responses) = 2
    /\ cameras[1] # cameras[2]
    /\ responses[1].raised
    /\ responses[2] = [raised |-> FALSE, status_code |-> 201]
    /\ exported_files = <<cameras[2]>>

----------------------------------------------------------------------------
(* Properties of main *)

\* the start and return events of the named stages, run one after another
StagesOf(names) ==
    [i \in 1..(2 * Len(names)) |->
        <<names[(i + 1) \div 2], IF i % 2 = 1 THEN "start" ELSE "return">>]

\* the run of main in which every stage is called (lines 559-582)
FullRun == StagesOf(<<"ExportRequester", "CompletionTracker", "FileRelocator",
                      "RetentionSweeper">>)

\* the run in which no request was accepted: main does not call the tracker
RunWithoutTracker == StagesOf(<<"ExportRequester", "FileRelocator",
                                "RetentionSweeper">>)

\* s is an initial part of t
IsPrefix(s, t) == Len(s) <= Len(t) /\ SubSeq(t, 1, Len(s)) = s

\* C10: the stages start in the order ExportRequester, CompletionTracker,
\* FileRelocator, RetentionSweeper, each after the one before it has
\* returned and each at most once (the tracker is left out when no request
\* was accepted); an invocation that is not cancelled runs them to the end,
\* also when the tracker has returned False.
C10_StagesRunInOrder ==
    /\ IsPrefix(stages, FullRun) \/ IsPrefix(stages, RunWithoutTracker)
    /\ pc \in {"returned", "exited"} => should_exit
    /\ pc = "done" => stages \in {FullRun, RunWithoutTracker}
    /\ (pc = "done" /\ result # "none") => stages = FullRun

\* C10 witness: the tracker has timed out and the run has ended after the
\* relocator and the sweeper
C10_Witness ==
    /\ pc = "done"
    /\ result = "False"
    /\ stages = FullRun

----------------------------------------------------------------------------
(* Properties of the exit flag *)

\* a stage of main has been started by the step
StageStarted ==
    \E i \in (Len(stages) + 1)..Len(stages') : stages'[i][2] = "start"

\* with the exit flag set, the step sends no request, begins no poll, moves
\* and deletes no file and starts no stage
NoEffectAfterExitFlag ==
    should_exit =>
        /\ Len(requests') <= Len(requests)
        /\ polls' <= polls
        /\ moved_files' = moved_files
        /\ cleaned_files' = cleaned_files
        /\ DOMAIN dest' = DOMAIN dest
        /\ ~StageStarted

\* C11: once should_exit is set no loop starts another iteration (no further
\* request, poll, move or delete, no later stage), and every loop ends
\* without raising: the run ends in a return of main, never in an exception
\* passing through the loops.
C11_ExitFlagEndsLoopsWithoutRaising ==
    /\ [](should_exit => pc # "exited")
    /\ [][NoEffectAfterExitFlag]_vars

\* the part of C11 about effects alone
C11_NoEffectAfterExitFlag == [][NoEffectAfterExitFlag]_vars

----------------------------------------------------------------------------
(* Properties of check_and_move_exported_files *)

\* the host file of the record the loop over target_exports is at
CurrentFile == get_real_file_path(ExportRecords[reloc_targets[reloc_i]].video_path)

\* one iteration of the loop: the count goes up by one exactly when the file
\* of the record has arrived in the destination directory, and a record
\* whose file is missing leaves the count and both directories as they are
CountFollowsMove ==
    (pc = "move_loop" /\ reloc_i' = reloc_i + 1) =>
        /\ moved_files' = moved_files +
              (IF basename(CurrentFile) \in DOMAIN dest' THEN 1 ELSE 0)
        /\ ~exists(disk, CurrentFile) =>
              (moved_files' = moved_files /\ dest' = dest /\ disk' = disk)

\* C12: the count reported is the number of target records whose file was
\* there and whose move succeeded; a missing file is skipped and not counted;
\* a missing file, a failed move or a failed DELETE of the remote record
\* neither changes the count of the others nor ends the loop, which goes
\* through every target record unless the run is cancelled.
C12_MovedCountIsMovedFiles ==
    /\ [](pc \in {"move_loop", "relocated"} =>
             moved_files = Cardinality(DOMAIN dest))
    /\ []((pc = "relocated" /\ ~should_exit) =>
             reloc_i = Len(reloc_targets) + 1)
    /\ [][CountFollowsMove]_vars

\* C12 witness: of three target records the first had no file, the move of
\* the second failed and the third was moved, its remote record left in
\* place by a failed DELETE; the count is 1
C12_Witness ==
    /\ pc = "relocated"
    /\ ~should_exit
    /\ reloc_targets = <<"r1", "r2", "r3">>
    /\ reloc_i = 4
    /\ moved_files = 1
    /\ ~exists(disk, join(SOURCE_PATH, "a.mp4")) /\ "a.mp4" \notin DOMAIN dest
    /\ exists(disk, join(SOURCE_PATH, "b.mp4"))
    /\ "c.mp4" \in DOMAIN dest
    /\ exports["r3"] = "done"

----------------------------------------------------------------------------
(* Properties of clean_old_exports *)

\* C13: the sweep deletes a file of the destination directory if and only if
\* its modification time is strictly earlier than the cutoff, whatever the
\* offset between the host's timezone and the configured one: os.remove is
\* called only for files older than the cutoff, and a file the loop has
\* passed that is older than the cutoff and still there is one whose
\* os.remove raised.
C13_DeletesExactlyOlderThanCutoff ==
    pc \in {"clean_loop", "done"} =>
        /\ \A f \in DOMAIN removals : removals[f] < cutoff
        /\ \A i \in 1..(clean_i - 1) :
              LET f == clean_list[i] IN
              (f \in DOMAIN dest /\ dest[f] < cutoff) => f \in DOMAIN removals

----------------------------------------------------------------------------
(* Properties of the time window *)

\* the first second of the target day in the configured timezone, and the
\* first second of the day after it, on the scale of export_window
DayStart(tr) == IF tr = "back" THEN 0 - 3600 ELSE 0

DayEnd(tr) == IF tr = "forward" THEN 23 * 3600 ELSE 24 * 3600

\* what a clock of the configured timezone shows at the instant ts, in
\* seconds after its 00:00
WallClock(ts, tr) ==
    CASE tr = "none" -> ts
      [] tr = "forward" -> IF ts < 2 * 3600 THEN ts ELSE ts + 3600
      [] tr = "back" -> IF ts < 2 * 3600 THEN ts + 3600 ELSE ts

\* the wall time is skipped by the clocks of the configured timezone
InGap(wall, tr) == tr = "forward" /\ 2 * 3600 <= wall /\ wall < 3 * 3600

\* C15: for a valid date and hours 0 <= start_hour <= end_hour <= 23 the
\* window of the requests begins at start_hour:00:00 and ends at
\* end_hour:59:59 of the target day by the clock of the configured timezone
\* (for a wall time that clock skips: at the instant it would have shown
\* under standard time), start_timestamp <= end_timestamp, and both lie
\* within the target day.
C15_WindowWithinTheDay ==
    export_window # <<>> =>
        LET start_timestamp == export_window[1]
            end_timestamp == export_window[2]
            first == hours[1] * 3600
            last == hours[2] * 3600 + 59 * 60 + 59
        IN /\ 0 <= hours[1] /\ hours[1] <= hours[2] /\ hours[2] <= 23
           /\ start_timestamp <= end_timestamp
           /\ DayStart(transition) <= start_timestamp
           /\ end_timestamp < DayEnd(transition)
           /\ ~InGap(first, transition) =>
                 WallClock(start_timestamp, transition) = first
           /\ ~InGap(last, transition) =>
                 WallClock(end_timestamp, transition) = last
           /\ InGap(first, transition) =>
                 WallClock(start_timestamp, transition) = first + 3600
           /\ InGap(last, transition) =>
                 WallClock(end_timestamp, transition) = last + 3600

\* C15 witness: requests are sent for hours 0 to 2 of a day on which daylight
\* saving time ends
C15_Witness ==
    /\ pc = "export_loop"
    /\ requests # <<>>
    /\ transition = "back"
    /\ hours = <<0, 2>>
    /\ export_window = <<0 - 3600, 2 * 3600 + 3599>>

\* C16: with a date that does not parse, or hours out of 0..23 or inverted,
\* no window is computed and no request is sent; the requester returns an
\* empty list, the tracker is not run, no file is moved, and the run goes on
\* to its end unless a signal ends it.
C16_BadArgumentsSendNothing ==
    window # "ok" =>
        /\ export_window = <<>>
        /\ requests = <<>>
        /\ exported_files = <<>>
        /\ tracked = {}
        /\ result = "none"
        /\ \A i \in 1..Len(stages) : stages[i][1] # "CompletionTracker"
        /\ moved_files = 0
        /\ reloc_targets = <<>>
        /\ \A f \in DOMAIN dest : f = "old.mp4"
        /\ pc \in {"returned", "exited"} => should_exit

\* C16 witness: the run with inverted or out-of-range hours has ended, the
\* finished export of the second camera still in the source directory
C16_Witness ==
    /\ window = "bad_hours"
    /\ pc = "done"
    /\ stages = RunWithoutTracker
    /\ exports["r3"] = "done"
    /\ exists(disk, join(SOURCE_PATH, "c.mp4"))

\* C16 witness for the date: the relocator has returned at its own test of
\* the date
C16_WitnessBadDate ==
    /\ window = "bad_date"
    /\ pc = "relocated"
    /\ dest_made
    /\ exists(disk, join(SOURCE_PATH, "c.mp4"))

----------------------------------------------------------------------------
(* Termination of check_export_status *)

\* ceil(max_wait_time / 30)
MaxPolls == (MaxWaitTime + 29) \div 30

\* what check_export_status has left to do: two for every iteration it may
\* still begin, less one once the iteration has been made and the sleep is due
TrackerRank ==
    CASE pc = "poll" -> 2 * (MaxPolls - polls) + 1
      [] pc = "sleep" -> 2 * (MaxPolls - polls) + 2
      [] OTHER -> 0

\* a step taken inside check_export_status leaves it less to do
RankDecreases == (pc \in {"poll", "sleep"}) => (TrackerRank' < TrackerRank)

\* C17: check_export_status runs at most ceil(max_wait_time / 30) poll
\* iterations, every iteration that does not return being followed by a
\* sleep of 30 seconds before the deadline is tested again, and it always
\* comes to its end: it can always take a step, and every step it takes
\* brings it nearer to its return.
C17_TrackerTerminates ==
    /\ [](polls <= MaxPolls)
    /\ [](pc = "poll" => elapsed >= 30 * polls)
    /\ [](pc \in {"poll", "sleep"} => TrackerRank > 0)
    /\ [](pc = "sleep" => ENABLED Sleep)
    /\ [](pc = "poll" =>
             IF LoopCondition
             THEN PollEvents(disk) # {} /\ Orders(pending_cameras) # {}
             ELSE ENABLED LoopExit)
    /\ [][RankDecreases]_vars

\* C17 witness: the tracker has returned False after ceil(max_wait_time / 30)
\* iterations, one of which ended in the except branch
C17_Witness ==
    /\ pc = "tracked"
    /\ result = "False"
    /\ polls = MaxPolls
    /\ elapsed >= MaxWaitTime
    /\ ~should_exit

\* C18: check_export_status sleeps only between two poll iterations: when
\* it has slept, the loop condition holds and another iteration follows;
\* after its last iteration it returns without a sleep.  Stated for a run
\* that is not cancelled.
C18_SleepsOnlyBetweenIterations ==
    (pc = "poll" /\ polls > 0 /\ ~should_exit) => LoopCondition

----------------------------------------------------------------------------
(* Properties of the pipeline *)

\* the camera of the export record a file of the destination directory
\* belongs to
CameraOfFile(f) ==
    LET r == CHOOSE x \in RecordIds : basename(ExportRecords[x].video_path) = f
    IN ExportRecords[r].camera

\* C19: check_and_move_exported_files moves a file only for a camera that
\* check_export_status has removed from its pending set in this run; a file
\* of a camera still pending when the tracker returned is never moved.
C19_OnlyConfirmedCamerasAreMoved ==
    pc \in {"move_loop", "relocated"} =>
        \A f \in DOMAIN dest : CameraOfFile(f) \in confirmed

\* C20: all stages of one run use the same target date: the date string the
\* tracker and the relocator match export records with is the day of the
\* window the requester asked for, also when no --date is given and
\* midnight passes while the run is under way.
C20_StagesUseOneTargetDate ==
    \A s \in DOMAIN target_date, t \in DOMAIN target_date :
        target_date[s] = target_date[t]

----------------------------------------------------------------------------
(* Properties of the start of the process *)

\* the configuration file the run is told to use: the file of --config when
\* the flag is given, config.ini otherwise
Selected == IF args_config.kind = "not_given" THEN config_ini ELSE args_config

\* the file is there, can be read and defines api_url, source_path,
\* dest_path and an integer export_retention_days
Usable(f) ==
    /\ f.kind = "file"
    /\ f.opts.api_url # Absent
    /\ f.opts.source_path # Absent
    /\ f.opts.dest_path # Absent
    /\ IsInt(f.opts.export_retention_days)

\* the process has ended with an error of the configuration
ConfigError == pc \in {"exit_1", "raised"}

\* main has gone on past the configuration check
PipelineStarted == pc \in {"get_cameras", "export_entry"}

\* nothing has been asked of the API or done to the directories
NothingAttempted ==
    /\ cameras = <<>>
    /\ requests = <<>>
    /\ disk = DiskAtStart
    /\ dest = <<>>
    /\ ~dest_made

\* the pipeline never starts when the selected file is not usable, and the
\* process that ends with a configuration error has attempted nothing
UnusableFileIsFatal ==
    /\ PipelineStarted => Usable(Selected)
    /\ ConfigError => NothingAttempted

\* C21: the process ends with a configuration error, before any request or
\* file operation, exactly when the selected configuration file is missing,
\* unreadable or lacks a required option; when the selected file is readable
\* and defines api_url, source_path, dest_path and an integer
\* export_retention_days, the pipeline starts.
C21_ConfigErrorExactlyForUnusableFile ==
    /\ UnusableFileIsFatal
    /\ ConfigError => ~Usable(Selected)

====
